---- MODULE Spec2Model ----
(***************************************************************************)
(* The three batch scripts of AutoVideoEditor as one state machine:        *)
(*   kind = "head"  : video_replacer.py        (replace the head)          *)
(*   kind = "tail"  : upsell_video_replacer.py (replace the tail)          *)
(*   kind = "audio" : audio_replacer.py        (swap the audio track)      *)
(* One step is one external call (ffmpeg / ffprobe subprocess, or an       *)
(* os.path check) together with the Python that follows it up to the next  *)
(* external call.  Durations are whole ticks with exact arithmetic: the    *)
(* rounding of the scripts' IEEE doubles is not part of the model.         *)
(***************************************************************************)
EXTENDS Integers, Sequences, FiniteSets, TLC

\* ---------------------------------------------------------------- bounds
MaxPool == 3
MaxDur == 3
MaxTarget == 5

Kinds == {"head", "tail", "audio"}
Durations == 0..MaxDur
Targets == 0..MaxTarget

VARIABLES
    kind,               \* which script runs
    n,                  \* len(video_files) / len(audio_files): what the folder holds
    dur,                \* dur[j]: what ffprobe answers for pool entry j
    anchor,             \* duration of the single fixed clip (main video / upsell video)
    target,             \* target_length (head) or start_time (tail); unused by audio
    pc,                 \* position of the script
    status,             \* process exit status; -1 while running
    cause,              \* why the process ended
    i,                  \* loop index of the batch loop
    files,              \* work_dir: artifact -> length (ticks; lines for a manifest)
    transcodes,         \* number of ffmpeg transform invocations so far
    created,            \* indices i whose "Created: ..." line was printed
    plan,               \* segments written to temp_segments / the single cut
    current_duration,
    remaining_needed,
    filler_index,
    partial,            \* the "Used all available videos" warning was printed
    fileProbes,         \* pool entries probed while composing the current file
    probes,             \* ffprobe calls per pool entry in this run
    upsell_needed,      \* original_duration - start_time of the current file
    mutedBuilds,        \* times temp_muted_video.mp4 was built
    muxMissing          \* a mux was started while temp_muted_video.mp4 did not exist

inputs == <<kind, n, dur, anchor, target>>
comp == <<plan, current_duration, remaining_needed, filler_index, partial, fileProbes>>
aud == <<mutedBuilds, muxMissing>>
vars == <<kind, n, dur, anchor, target, pc, status, cause, i, files, transcodes,
          created, plan, current_duration, remaining_needed, filler_index, partial,
          fileProbes, probes, upsell_needed, mutedBuilds, muxMissing>>

\* --------------------------------------------------------------- helpers
Min(a, b) == IF a <= b THEN a ELSE b

\* ffmpeg -t t on an input of length len
Trim(len, t) == IF t <= 0 THEN 0 ELSE Min(len, t)

\* ffmpeg -ss ss on an input of length len
Seek(len, ss) == IF ss < len THEN len - ss ELSE 0

\* ffmpeg ... -shortest
Shortest(v, a) == Min(v, a)

\* an artifact of work_dir: <<name, number, filler index>>
Art(name, num) == <<name, num, 0>>
Filler(num, k) == <<"temp_filler", num, k>>

Put(f, a, len) == [x \in DOMAIN f \cup {a} |-> IF x = a THEN len ELSE f[x]]
Remove(f, S) == [x \in DOMAIN f \ S |-> f[x]]

Intermediates(f) == {a \in DOMAIN f : a[1] # "output"}

RECURSIVE SumUse(_)
SumUse(s) == IF s = <<>> THEN 0 ELSE s[1].use + SumUse(Tail(s))

FillerSteps(p) == {k \in DOMAIN p : p[k].role = "filler"}

TranscodePcs ==
    {"extract_audio", "cut_anchor", "orig_segment", "loop", "concat_segments",
     "main_segment", "concat", "mux",
     "t_extract_audio", "t_beginning", "t_loop_concat", "t_loop_cut",
     "t_cut_upsell", "t_concat", "t_mux",
     "a_mute", "a_mux"}

ProbePcs ==
    {"probe_anchor", "loop", "probe_output", "t_probe", "t_probe_output",
     "a_probe_output", "probe_fixed"}

Exit(code, why) ==
    /\ pc' = "exited"
    /\ status' = code
    /\ cause' = why

Goto(p) ==
    /\ pc' = p
    /\ UNCHANGED <<status, cause>>

\* ------------------------------------------------------------------ Init
Init ==
    /\ kind \in Kinds
    /\ n \in 0..MaxPool
    /\ dur \in [0..(n - 1) -> Durations]
    /\ anchor \in Durations
    /\ target \in (IF kind = "audio" THEN {0} ELSE Targets)
    /\ pc = "check_ffmpeg"
    /\ status = -1
    /\ cause = "none"
    /\ i = 0
    /\ files = <<>>
    /\ transcodes = 0
    /\ created = {}
    /\ plan = <<>>
    /\ current_duration = 0
    /\ remaining_needed = 0
    /\ filler_index = 0
    /\ partial = FALSE
    /\ fileProbes = <<>>
    /\ probes = [j \in 0..(n - 1) |-> 0]
    /\ upsell_needed = 0
    /\ mutedBuilds = 0
    /\ muxMissing = FALSE

\* ------------------------------------------------------- main(): preflight
\* if not check_ffmpeg(): sys.exit(1)
CheckFfmpeg ==
    /\ pc = "check_ffmpeg"
    /\ \E ok \in BOOLEAN :
         IF ok THEN Goto("check_anchor") ELSE Exit(1, "engine")
    /\ UNCHANGED <<inputs, i, files, transcodes, created, comp, probes,
                   upsell_needed, aud>>

\* if not os.path.isfile(...): sys.exit(1); the tail and audio scripts then
\* probe the fixed clip
CheckAnchor ==
    /\ pc = "check_anchor"
    /\ \E ok \in BOOLEAN :
         IF ok
         THEN Goto(IF kind = "head" THEN "check_folder" ELSE "probe_fixed")
         ELSE Exit(1, "anchor")
    /\ UNCHANGED <<inputs, i, files, transcodes, created, comp, probes,
                   upsell_needed, aud>>

\* upsell_duration = get_video_duration(upsell_video) /
\* video_duration = get_video_duration(main_video)
ProbeFixed ==
    /\ pc = "probe_fixed"
    /\ Goto("check_folder")
    /\ UNCHANGED <<inputs, i, files, transcodes, created, comp, probes,
                   upsell_needed, aud>>

\* if not os.path.isdir(...): sys.exit(1)
CheckFolder ==
    /\ pc = "check_folder"
    /\ \E ok \in BOOLEAN :
         IF ok
         THEN Goto(IF kind = "audio" THEN "scan" ELSE "read_target")
         ELSE Exit(1, "folder")
    /\ UNCHANGED <<inputs, i, files, transcodes, created, comp, probes,
                   upsell_needed, aud>>

\* float(input(...).strip()): a ValueError reaches the handler of __main__
ReadTarget ==
    /\ pc = "read_target"
    /\ \E ok \in BOOLEAN :
         IF ok THEN Goto("scan") ELSE Exit(1, "number")
    /\ UNCHANGED <<inputs, i, files, transcodes, created, comp, probes,
                   upsell_needed, aud>>

\* mutant: the empty-pool check left out
PoolEmptyUnchecked(k) == FALSE

\* if not video_files: sys.exit(1)
PoolEmpty(k) == k = 0

\* mutant: the pass starts after the audio extraction
FirstStageSkipsAudio(kd) ==
    CASE kd = "head" -> "probe_anchor"
      [] kd = "tail" -> "t_beginning"
      [] OTHER -> "a_mux"

\* the first external call of one pass of "for i, f in enumerate(...)"
FirstStage(kd) ==
    CASE kd = "head" -> "extract_audio"
      [] kd = "tail" -> "t_probe"
      [] OTHER -> "a_mux"

\* the for statement: another pass, or the end of main() ("=== COMPLETE ===")
ForLoop(idx) ==
    IF idx < n THEN Goto(FirstStage(kind)) ELSE Exit(0, "complete")

\* os.makedirs(work_dir); find_video_files / find_audio_files; the empty check
Scan ==
    /\ pc = "scan"
    /\ IF PoolEmpty(n)
       THEN Exit(1, "empty")
       ELSE IF kind = "audio" THEN Goto("a_mute") ELSE ForLoop(0)
    /\ UNCHANGED <<inputs, i, files, transcodes, created, comp, probes,
                   upsell_needed, aud>>

\* --------------------------------------------- video_replacer.py: one file
\* Step 1: extract audio from the main video -> main_audio_{i}.aac
ExtractAudio ==
    /\ pc = "extract_audio"
    /\ files' = Put(files, Art("main_audio", i), anchor)
    /\ transcodes' = transcodes + 1
    /\ Goto("probe_anchor")
    /\ UNCHANGED <<inputs, i, created, comp, probes, upsell_needed, aud>>

\* mutant: ">" in place of ">="
LongEnoughStrict(d, t) == d > t

\* if duration >= target_length
LongEnough(d, t) == d >= t

\* duration = get_video_duration(str(video_file)) and the branch on it
ProbeAnchor ==
    /\ pc = "probe_anchor"
    /\ probes' = [probes EXCEPT ![i] = @ + 1]
    /\ fileProbes' = Append(fileProbes, i)
    /\ Goto(IF LongEnough(dur[i], target) THEN "cut_anchor" ELSE "orig_segment")
    /\ UNCHANGED <<inputs, i, files, transcodes, created, plan, current_duration,
                   remaining_needed, filler_index, partial, upsell_needed, aud>>

\* "Video is long enough, just cut and mute" -> temp_processed_{n}.mp4
CutAnchor ==
    /\ pc = "cut_anchor"
    /\ files' = Put(files, Art("temp_processed", i + 1), Trim(dur[i], target))
    /\ transcodes' = transcodes + 1
    /\ plan' = << [src |-> i, use |-> Trim(dur[i], target), full |-> dur[i],
                   role |-> "anchor", trimmed |-> TRUE] >>
    /\ Goto("main_segment")
    /\ UNCHANGED <<inputs, i, created, current_duration, remaining_needed,
                   filler_index, partial, fileProbes, probes, upsell_needed, aud>>

\* mutant: "<" in place of "<=": the loop stops before the warning
LoopCondStrict(rem, k, cnt) == rem > 0 /\ k < cnt

\* mutant: ">=" in place of ">": the loop goes on with a deficit of 0
LoopCondNonNeg(rem, k, cnt) == rem >= 0 /\ k <= cnt

\* while remaining_needed > 0 and filler_index <= len(video_files)
LoopCond(rem, k, cnt) == rem > 0 /\ k <= cnt

\* "Start with original video" -> temp_original_{n}.mp4, then the manifest's
\* first line and the loop's variables
OrigSegment ==
    /\ pc = "orig_segment"
    /\ files' = Put(Put(files, Art("temp_original", i + 1), dur[i]),
                    Art("temp_segments", i + 1), 1)
    /\ transcodes' = transcodes + 1
    /\ plan' = << [src |-> i, use |-> dur[i], full |-> dur[i],
                   role |-> "anchor", trimmed |-> FALSE] >>
    /\ current_duration' = dur[i]
    /\ remaining_needed' = target - dur[i]
    /\ filler_index' = 0
    /\ Goto(IF LoopCond(target - dur[i], 0, n) THEN "loop" ELSE "concat_segments")
    /\ UNCHANGED <<inputs, i, created, partial, fileProbes, probes, upsell_needed, aud>>

\* mutant: the skip over the current file left out
FillerVideoIndexNoSkip(e, k, cnt) == (e + 1 + k) % cnt

\* "Find next filler video (cycle through, skip current)"
FillerVideoIndex(e, k, cnt) ==
    LET f == (e + 1 + k) % cnt
    IN  IF f = e THEN (f + 1) % cnt ELSE f

\* mutant: the whole filler is used, the deficit ignored
UseDurationFull(fd, rem) == fd

\* use_duration = min(filler_duration, remaining_needed)
UseDuration(fd, rem) == Min(fd, rem)

\* if filler_index > len(video_files): print_warning(...); break
Exhausted(k, cnt) == k > cnt

\* mutant: the increment left out
NextFillerIndexStuck(k) == k

\* filler_index += 1
NextFillerIndex(k) == k + 1

\* one pass of the while loop: select, probe, transcode, append, account
FillerStep ==
    /\ pc = "loop"
    /\ LET fvi == FillerVideoIndex(i, filler_index, n)
           fd == dur[fvi]
           use == UseDuration(fd, remaining_needed)
           made == IF use = fd THEN fd ELSE Trim(fd, use)
           seg == Art("temp_segments", i + 1)
           k2 == NextFillerIndex(filler_index)
           rem2 == remaining_needed - use
       IN  /\ probes' = [probes EXCEPT ![fvi] = @ + 1]
           /\ fileProbes' = Append(fileProbes, fvi)
           /\ files' = Put(Put(files, Filler(i + 1, filler_index), made),
                           seg, files[seg] + 1)
           /\ plan' = Append(plan, [src |-> fvi, use |-> use, full |-> fd,
                                    role |-> "filler", trimmed |-> use # fd])
           /\ current_duration' = current_duration + use
           /\ remaining_needed' = rem2
           /\ filler_index' = k2
           /\ partial' = Exhausted(k2, n)
           /\ Goto(IF Exhausted(k2, n) \/ ~LoopCond(rem2, k2, n)
                   THEN "concat_segments" ELSE "loop")
    /\ transcodes' = transcodes + 1
    /\ UNCHANGED <<inputs, i, created, upsell_needed, aud>>

\* total length of temp_filler_{num}_0 .. temp_filler_{num}_{k-1}
RECURSIVE FillersLength(_, _, _)
FillersLength(f, num, k) ==
    IF k = 0 THEN 0
    ELSE f[Filler(num, k - 1)] + FillersLength(f, num, k - 1)

\* "Concatenate all segments" -> temp_processed_{n}.mp4, "Clean up segment files"
ConcatSegments ==
    /\ pc = "concat_segments"
    /\ LET num == i + 1
           total == files[Art("temp_original", num)] + FillersLength(files, num, filler_index)
           gone == {Art("temp_original", num), Art("temp_segments", num)}
                     \cup {Filler(num, j) : j \in 0..(filler_index - 1)}
       IN  files' = Put(Remove(files, gone), Art("temp_processed", num), total)
    /\ transcodes' = transcodes + 1
    /\ Goto("main_segment")
    /\ UNCHANGED <<inputs, i, created, comp, probes, upsell_needed, aud>>

\* Step 3: cut main video from target_length to end -> temp_main_segment_{n}.mp4,
\* then the concat list temp_list_{n}.txt
MainSegment ==
    /\ pc = "main_segment"
    /\ files' = Put(Put(files, Art("temp_main_segment", i + 1), Seek(anchor, target)),
                    Art("temp_list", i + 1), 2)
    /\ transcodes' = transcodes + 1
    /\ Goto("concat")
    /\ UNCHANGED <<inputs, i, created, comp, probes, upsell_needed, aud>>

\* "Concatenate video parts (no audio)" -> temp_combined_{n}.mp4
Concat ==
    /\ pc = "concat"
    /\ files' = Put(files, Art("temp_combined", i + 1),
                    files[Art("temp_processed", i + 1)]
                      + files[Art("temp_main_segment", i + 1)])
    /\ transcodes' = transcodes + 1
    /\ Goto("mux")
    /\ UNCHANGED <<inputs, i, created, comp, probes, upsell_needed, aud>>

\* for temp_file in [processed_file, main_segment, concat_list, main_audio,
\*                   combined_video]: os.remove
HeadTemps(idx) ==
    {Art("temp_processed", idx + 1), Art("temp_main_segment", idx + 1),
     Art("temp_list", idx + 1), Art("main_audio", idx), Art("temp_combined", idx + 1)}

\* "Add original audio" -> {folder_name}_{n}.mp4, then "Clean up"
Mux ==
    /\ pc = "mux"
    /\ LET out == Shortest(files[Art("temp_combined", i + 1)], files[Art("main_audio", i)])
       IN  files' = Remove(Put(files, Art("output", i + 1), out), HeadTemps(i))
    /\ transcodes' = transcodes + 1
    /\ Goto("probe_output")
    /\ UNCHANGED <<inputs, i, created, comp, probes, upsell_needed, aud>>

\* output_duration = get_video_duration(output_file); print_success("Created");
\* the pass ends and the locals of process_replacement_video are gone
ProbeOutput ==
    /\ pc = "probe_output"
    /\ created' = created \cup {i}
    /\ i' = i + 1
    /\ plan' = <<>>
    /\ current_duration' = 0
    /\ remaining_needed' = 0
    /\ filler_index' = 0
    /\ partial' = FALSE
    /\ fileProbes' = <<>>
    /\ ForLoop(i + 1)
    /\ UNCHANGED <<inputs, files, transcodes, probes, upsell_needed, aud>>

\* -------------------------------------- upsell_video_replacer.py: one file
\* original_duration = get_video_duration(...); upsell_needed = original - start
TProbe ==
    /\ pc = "t_probe"
    /\ probes' = [probes EXCEPT ![i] = @ + 1]
    /\ upsell_needed' = dur[i] - target
    /\ Goto("t_extract_audio")
    /\ UNCHANGED <<inputs, i, files, transcodes, created, comp, aud>>

\* Step 1: extract audio from original video -> original_audio_{i}.aac
TExtractAudio ==
    /\ pc = "t_extract_audio"
    /\ files' = Put(files, Art("original_audio", i), dur[i])
    /\ transcodes' = transcodes + 1
    /\ Goto("t_beginning")
    /\ UNCHANGED <<inputs, i, created, comp, probes, upsell_needed, aud>>

\* if upsell_needed > upsell_duration
NeedsLoop(needed, ud) == needed > ud

\* loops_needed = int(upsell_needed / upsell_duration) + 1
LoopsNeeded(needed, ud) == (needed \div ud) + 1

\* mutant: the quotient alone, without the two extra references
LoopRefsNoMargin(needed, ud) == needed \div ud

\* for _ in range(loops_needed + 1): f.write(...)
LoopRefs(needed, ud) == LoopsNeeded(needed, ud) + 1

\* Step 2: beginning of the original (muted) -> temp_original_beginning_{n}.mp4;
\* then the branch of step 3 up to its first ffmpeg call (the loop list is
\* written there; a zero upsell duration raises ZeroDivisionError)
TBeginning ==
    /\ pc = "t_beginning"
    /\ transcodes' = transcodes + 1
    /\ LET made == Put(files, Art("temp_original_beginning", i + 1), Trim(dur[i], target))
       IN  IF NeedsLoop(upsell_needed, anchor)
           THEN IF anchor = 0
                THEN files' = made /\ Exit(1, "zerodiv")
                ELSE /\ files' = Put(made, Art("temp_loop", i + 1),
                                     LoopRefs(upsell_needed, anchor))
                     /\ Goto("t_loop_concat")
           ELSE files' = made /\ Goto("t_cut_upsell")
    /\ UNCHANGED <<inputs, i, created, comp, probes, upsell_needed, aud>>

\* "Concatenate loops" -> temp_looped_{n}.mp4
TLoopConcat ==
    /\ pc = "t_loop_concat"
    /\ files' = Put(files, Art("temp_looped", i + 1),
                    files[Art("temp_loop", i + 1)] * anchor)
    /\ transcodes' = transcodes + 1
    /\ Goto("t_loop_cut")
    /\ UNCHANGED <<inputs, i, created, comp, probes, upsell_needed, aud>>

\* "Cut to exact duration" -> temp_upsell_{n}.mp4; os.remove(loop_list),
\* os.remove(looped_full); then the concat list of step 4
TLoopCut ==
    /\ pc = "t_loop_cut"
    /\ LET cut == Trim(files[Art("temp_looped", i + 1)], upsell_needed)
           kept == Remove(files, {Art("temp_loop", i + 1), Art("temp_looped", i + 1)})
       IN  files' = Put(Put(kept, Art("temp_upsell", i + 1), cut),
                        Art("temp_concat", i + 1), 2)
    /\ transcodes' = transcodes + 1
    /\ Goto("t_concat")
    /\ UNCHANGED <<inputs, i, created, comp, probes, upsell_needed, aud>>

\* "Just cut upsell to needed duration" -> temp_upsell_{n}.mp4; then the
\* concat list of step 4
TCutUpsell ==
    /\ pc = "t_cut_upsell"
    /\ files' = Put(Put(files, Art("temp_upsell", i + 1), Trim(anchor, upsell_needed)),
                    Art("temp_concat", i + 1), 2)
    /\ transcodes' = transcodes + 1
    /\ Goto("t_concat")
    /\ UNCHANGED <<inputs, i, created, comp, probes, upsell_needed, aud>>

\* Step 4: concatenate [beginning, upsell section] -> temp_combined_{n}.mp4
TConcat ==
    /\ pc = "t_concat"
    /\ files' = Put(files, Art("temp_combined", i + 1),
                    files[Art("temp_original_beginning", i + 1)]
                      + files[Art("temp_upsell", i + 1)])
    /\ transcodes' = transcodes + 1
    /\ Goto("t_mux")
    /\ UNCHANGED <<inputs, i, created, comp, probes, upsell_needed, aud>>

\* for temp_file in [original_audio, original_beginning, upsell_section,
\*                   concat_list, combined_video]: os.remove
TailTemps(idx) ==
    {Art("original_audio", idx), Art("temp_original_beginning", idx + 1),
     Art("temp_upsell", idx + 1), Art("temp_concat", idx + 1),
     Art("temp_combined", idx + 1)}

\* Step 5: add original audio -> {folder_name}_{n}.mp4, then "Clean up"
TMux ==
    /\ pc = "t_mux"
    /\ LET out == Shortest(files[Art("temp_combined", i + 1)],
                           files[Art("original_audio", i)])
       IN  files' = Remove(Put(files, Art("output", i + 1), out), TailTemps(i))
    /\ transcodes' = transcodes + 1
    /\ Goto("t_probe_output")
    /\ UNCHANGED <<inputs, i, created, comp, probes, upsell_needed, aud>>

\* output_duration = get_video_duration(output_file); print_success("Created")
TProbeOutput ==
    /\ pc = "t_probe_output"
    /\ created' = created \cup {i}
    /\ i' = i + 1
    /\ ForLoop(i + 1)
    /\ UNCHANGED <<inputs, files, transcodes, comp, probes, upsell_needed, aud>>

\* ------------------------------------------------------ audio_replacer.py
Muted == Art("temp_muted_video", 0)

\* "Step 1: Extract muted video once (with 9:16 fix)" -> temp_muted_video.mp4
AMute ==
    /\ pc = "a_mute"
    /\ files' = Put(files, Muted, anchor)
    /\ transcodes' = transcodes + 1
    /\ mutedBuilds' = mutedBuilds + 1
    /\ ForLoop(0)
    /\ UNCHANGED <<inputs, i, created, comp, probes, upsell_needed, muxMissing>>

\* "Combine muted video with audio" -> {video_name}_{n}.mp4; ffmpeg exits
\* non-zero when its input file does not exist
AMux ==
    /\ pc = "a_mux"
    /\ transcodes' = transcodes + 1
    /\ IF Muted \in DOMAIN files
       THEN /\ files' = Put(files, Art("output", i + 1), Shortest(files[Muted], dur[i]))
            /\ Goto("a_probe_output")
            /\ UNCHANGED muxMissing
       ELSE /\ muxMissing' = TRUE
            /\ Exit(1, "stage")
            /\ UNCHANGED files
    /\ UNCHANGED <<inputs, i, created, comp, probes, upsell_needed, mutedBuilds>>

\* mutant: os.remove(muted_video) indented into the loop body
MutedRemovedEveryPass(idx, cnt) == TRUE

\* where os.remove(muted_video) stands: after the for loop
MutedRemovedAt(idx, cnt) == idx >= cnt

\* output_duration = get_video_duration(output_file); print_success("Created");
\* after the last pass "Clean up": os.remove(muted_video)
AProbeOutput ==
    /\ pc = "a_probe_output"
    /\ created' = created \cup {i}
    /\ i' = i + 1
    /\ files' = IF MutedRemovedAt(i + 1, n) THEN Remove(files, {Muted}) ELSE files
    /\ ForLoop(i + 1)
    /\ UNCHANGED <<inputs, transcodes, comp, probes, upsell_needed, aud>>

\* ------------------------------------------------ failure and interruption
\* subprocess.run(..., check=True) raises CalledProcessError; nothing in the
\* batch loops catches it, so it reaches "except Exception" of __main__
StageFails ==
    /\ pc \in TranscodePcs
    /\ transcodes' = transcodes + 1
    /\ Exit(1, "stage")
    /\ UNCHANGED <<inputs, i, files, created, comp, probes, upsell_needed, aud>>

\* float(result.stdout.strip()) raises ValueError on an unreadable file
ProbeFails ==
    /\ pc \in ProbePcs
    /\ Exit(1, "probe")
    /\ UNCHANGED <<inputs, i, files, transcodes, created, comp, probes,
                   upsell_needed, aud>>

\* except KeyboardInterrupt: sys.exit(1)
Interrupt ==
    /\ pc # "exited"
    /\ Exit(1, "interrupt")
    /\ UNCHANGED <<inputs, i, files, transcodes, created, comp, probes,
                   upsell_needed, aud>>

\* ------------------------------------------------------------------ Next
Next ==
    \/ CheckFfmpeg
    \/ CheckAnchor
    \/ ProbeFixed
    \/ CheckFolder
    \/ ReadTarget
    \/ Scan
    \/ ExtractAudio
    \/ ProbeAnchor
    \/ CutAnchor
    \/ OrigSegment
    \/ FillerStep
    \/ ConcatSegments
    \/ MainSegment
    \/ Concat
    \/ Mux
    \/ ProbeOutput
    \/ TProbe
    \/ TExtractAudio
    \/ TBeginning
    \/ TLoopConcat
    \/ TLoopCut
    \/ TCutUpsell
    \/ TConcat
    \/ TMux
    \/ TProbeOutput
    \/ AMute
    \/ AMux
    \/ AProbeOutput
    \/ StageFails
    \/ ProbeFails
    \/ Interrupt

Spec == Init /\ [][Next]_vars

\* video_replacer.py alone; the script is a sequential program that keeps
\* running until it exits
InitHead == Init /\ kind = "head"

NextHead ==
    \/ CheckFfmpeg
    \/ CheckAnchor
    \/ CheckFolder
    \/ ReadTarget
    \/ Scan
    \/ ExtractAudio
    \/ ProbeAnchor
    \/ CutAnchor
    \/ OrigSegment
    \/ FillerStep
    \/ ConcatSegments
    \/ MainSegment
    \/ Concat
    \/ Mux
    \/ ProbeOutput
    \/ StageFails
    \/ ProbeFails
    \/ Interrupt

FairSpec == InitHead /\ [][NextHead]_vars /\ WF_vars(NextHead)

\* ================================================================ claims
Created(f) == {a \in DOMAIN f : a[1] = "output"}
PreflightPcs ==
    {"check_ffmpeg", "check_anchor", "probe_fixed", "check_folder", "read_target", "scan"}

\* C1 (as stated): in the head-replace and tail-replace loops, when a transcode
\* stage exits non-zero while file i is processed, the later files i+1..n are
\* still processed and the run ends with one recorded outcome per file (the
\* failing file's error line, a "Created" line for every other file).
C1_BatchSurvivesStageFailure ==
    (kind \in {"head", "tail"} /\ pc = "exited" /\ cause = "stage")
        => created \cup {i} = 0..(n - 1)

\* C2 (as stated): whenever the processing of one output file ends (success,
\* failed stage, interrupt), every intermediate artifact created for it has
\* been deleted; only final artifacts remain in work_dir.
C2_NoIntermediateSurvives ==
    (kind \in {"head", "tail"} /\ (pc = "exited" \/ pc = FirstStage(kind)))
        => Intermediates(files) = {}

\* C3: when the filler loop has ended (anchor shorter than the target, pool not
\* empty), the plan's total effective duration is >= target unless the
\* exhaustion warning was printed, and when it was printed every pool entry
\* other than the current file's was selected as a filler at least once.
C3_CoverageOrExhausted ==
    (kind = "head" /\ pc = "concat_segments")
        => /\ (SumUse(plan) >= target \/ partial)
           /\ partial =>
                \A j \in (0..(n - 1)) \ {i} :
                    \E k \in FillerSteps(plan) : plan[k].src = j

C3_Witness ==
    /\ kind = "head" /\ pc = "concat_segments"
    /\ n >= 2 /\ partial /\ SumUse(plan) < target

\* C4: with a pool of at least two entries the filler loop never selects the
\* entry of the file being processed, however many fillers it consumes.
C4_NeverSelectsExcluded ==
    (kind = "head" /\ n >= 2)
        => \A k \in FillerSteps(plan) : plan[k].src # i

C4_Witness ==
    /\ kind = "head" /\ n >= 2
    /\ Cardinality(FillerSteps(plan)) >= n

\* C5: when the anchor is at least as long as the target, the composition is
\* the single step "anchor cut to target": the filler branch is never entered,
\* temp_processed is exactly target long, and only the anchor was probed.
C5_LongAnchorSingleStep ==
    (kind = "head" /\ i < n /\ pc # "exited" /\ dur[i] >= target)
        => /\ pc \notin {"orig_segment", "loop", "concat_segments"}
           /\ FillerSteps(plan) = {}
           /\ pc \in {"main_segment", "concat"} =>
                /\ Len(plan) = 1
                /\ plan[1].role = "anchor" /\ plan[1].src = i /\ plan[1].trimmed
                /\ plan[1].use = target
                /\ files[Art("temp_processed", i + 1)] = target
                /\ fileProbes = <<i>>
                /\ \A a \in DOMAIN files : a[1] # "temp_filler"

C5_Witness ==
    /\ kind = "head" /\ pc = "main_segment"
    /\ dur[i] > target /\ target > 0
    /\ plan[1].trimmed /\ files[Art("temp_processed", i + 1)] = target

\* C6: the plan's effective durations (anchor plus fillers, a filler counted as
\* min(its duration, remaining deficit)) never sum to more than the target, and
\* around every loop iteration current_duration + remaining_needed = target.
C6_NeverOvershoots ==
    kind = "head"
        => /\ plan # <<>> => SumUse(plan) <= target
           /\ pc \in {"loop", "concat_segments"} =>
                /\ current_duration + remaining_needed = target
                /\ current_duration = SumUse(plan)
                /\ remaining_needed >= 0
           /\ pc \in {"main_segment", "concat"} =>
                files[Art("temp_processed", i + 1)] <= target

C6_Witness ==
    /\ kind = "head" /\ pc = "concat_segments"
    /\ \E k \in FillerSteps(plan) : plan[k].trimmed /\ plan[k].use < plan[k].full
    /\ Cardinality(FillerSteps(plan)) >= 2
    /\ SumUse(plan) = target

\* C7 (as stated): with a deficit and a pool that holds only the anchor itself,
\* composition fails for that file and emits no filler step.
C7_SinglePoolEmitsNoFiller ==
    (kind = "head" /\ n = 1) => FillerSteps(plan) = {}

\* C8: a failed engine check, a missing anchor, a missing folder or an empty
\* scan ends the run with exit status 1 before any transform was invoked; no
\* transform is ever invoked before the scan found a non-empty pool.
C8_FatalBeforeAnyStage ==
    /\ cause \in {"engine", "anchor", "folder", "empty"}
         => pc = "exited" /\ status = 1 /\ transcodes = 0
    /\ (n = 0 /\ pc \notin PreflightPcs)
         => pc = "exited" /\ status = 1 /\ transcodes = 0
    /\ transcodes > 0 => n > 0 /\ pc \notin PreflightPcs

C8_Witness ==
    /\ kind = "audio" /\ cause = "empty" /\ status = 1 /\ transcodes = 0

\* C9: in the audio-swap script temp_muted_video is built once, before the
\* first mux; every mux finds it in place; each completed mux leaves exactly
\* one output for its audio clip; and it is removed only when every clip of the
\* pool has its output.
C9_MutedSharedAcrossMuxes ==
    kind = "audio"
        => /\ mutedBuilds <= 1
           /\ pc \in {"a_mux", "a_probe_output"} =>
                mutedBuilds = 1 /\ Muted \in DOMAIN files
           /\ ~muxMissing
           /\ Created(files) # {} => mutedBuilds = 1
           /\ \A a \in Created(files) :
                /\ a[2] \in 1..n
                /\ files[a] = Min(anchor, dur[a[2] - 1])
           /\ \A j \in created : Art("output", j + 1) \in DOMAIN files
           /\ (mutedBuilds = 1 /\ Muted \notin DOMAIN files) =>
                /\ created = 0..(n - 1)
                /\ Cardinality(Created(files)) = n
           /\ cause = "complete" =>
                Cardinality(Created(files)) = n /\ Muted \notin DOMAIN files

C9_Witness ==
    /\ kind = "audio" /\ cause = "complete" /\ n >= 2
    /\ Cardinality(Created(files)) = n /\ Muted \notin DOMAIN files

\* C10: in the tail-replace script, for 0 <= start_time < original_duration and
\* a positive upsell duration, the loop list's references times the upsell
\* duration cover the deficit, the filler segment is exactly
\* original_duration - start_time long, and [head, filler] concatenated is
\* original_duration long.
C10_FillerExactlyDeficit ==
    (kind = "tail" /\ i < n /\ 0 <= target /\ target < dur[i] /\ anchor > 0)
        => /\ pc \in {"t_loop_concat", "t_loop_cut"} =>
                files[Art("temp_loop", i + 1)] * anchor >= dur[i] - target
           /\ pc = "t_loop_cut" =>
                files[Art("temp_looped", i + 1)] >= dur[i] - target
           /\ pc = "t_concat" =>
                files[Art("temp_upsell", i + 1)] = dur[i] - target
           /\ pc = "t_mux" =>
                files[Art("temp_combined", i + 1)] = dur[i]

C10_Witness ==
    /\ kind = "tail" /\ pc = "t_mux"
    /\ target > 0 /\ anchor > 0 /\ upsell_needed > anchor
    /\ files[Art("temp_combined", i + 1)] = dur[i]

\* C11 (as stated): fillers are drawn round-robin over the entries other than
\* the current file's, starting just after it: for n >= 2 the k-th filler
\* (k = 0, 1, ...) is entry k mod (n-1) of the cycle e+1, ..., e+n-1 (mod n);
\* so for n >= 3 no entry is selected for two consecutive fillers.
C11_RoundRobin ==
    (kind = "head" /\ n >= 2)
        => /\ \A p \in FillerSteps(plan) :
                plan[p].src = (i + 1 + ((p - 2) % (n - 1))) % n
           /\ n >= 3 =>
                \A p \in FillerSteps(plan) :
                    (p + 1) \in FillerSteps(plan) => plan[p + 1].src # plan[p].src

\* C13: in a plan with filler steps the anchor is used whole, and a filler that
\* is cut below its clip's duration is the last step: the deficit is 0 after
\* it and no further filler follows.
C13_OnlyLastFillerTrimmed ==
    (kind = "head" /\ FillerSteps(plan) # {})
        => /\ plan[1].role = "anchor"
           /\ ~plan[1].trimmed /\ plan[1].use = plan[1].full
           /\ \A p \in FillerSteps(plan) :
                (plan[p].trimmed \/ plan[p].use < plan[p].full)
                    => /\ p = Len(plan)
                       /\ remaining_needed = 0
                       /\ pc # "loop"

C13_Witness ==
    /\ kind = "head" /\ pc = "concat_segments"
    /\ Cardinality(FillerSteps(plan)) >= 2
    /\ plan[Len(plan)].trimmed /\ plan[Len(plan)].use < plan[Len(plan)].full
    /\ ~plan[2].trimmed

\* C14 (as stated): the exhaustion report is made if and only if the assembled
\* duration at the end of the filler loop is strictly less than the target.
C14_PartialIffShort ==
    (kind = "head" /\ pc = "concat_segments")
        => (partial <=> SumUse(plan) < target)

\* C16 (as stated): within one run the duration probe is invoked at most once
\* per distinct clip of the pool.
C16_ProbedAtMostOnce ==
    kind = "head" => \A j \in 0..(n - 1) : probes[j] <= 1

\* C17 (as stated): in the tail-replace script the length handed to the stage
\* that builds the filler segment (original_duration - start_time) is
\* strictly positive.
C17_TrimLengthPositive ==
    (kind = "tail" /\ pc \in {"t_cut_upsell", "t_loop_cut"}) => upsell_needed > 0

\* C15: the filler loop terminates for every pool, current file and set of
\* durations (zero-length fillers included) after at most n + 1 filler steps,
\* and from inside the loop the concatenation of the segments is reached
\* (unless the process ends first: a failed call or an interrupt).
C15_LoopTerminates ==
    /\ [](kind = "head" =>
            /\ Cardinality(FillerSteps(plan)) <= n + 1
            /\ filler_index <= n + 1
            /\ pc = "loop" => filler_index <= n)
    /\ (kind = "head" /\ pc = "loop") ~> (pc \in {"concat_segments", "exited"})

C15_Witness ==
    /\ kind = "head" /\ pc = "concat_segments"
    /\ n >= 2 /\ Cardinality(FillerSteps(plan)) = n + 1
    /\ \A p \in FillerSteps(plan) : plan[p].full = 0
    /\ remaining_needed > 0

\* the stage of the per-file state machine a position of the batch loop is in:
\* 0 Started, 1 AudioExtracted, 2 HeadOrFillerBuilt, 3 Concatenated, 4 Muxed
FilePcs ==
    (TranscodePcs \cup ProbePcs) \ {"probe_fixed", "a_mute", "a_mux", "a_probe_output"}

StageRank(p) ==
    CASE p \in {"extract_audio", "t_probe", "t_extract_audio"} -> 0
      [] p \in {"concat", "t_concat"} -> 2
      [] p \in {"mux", "t_mux"} -> 3
      [] p \in {"probe_output", "t_probe_output"} -> 4
      [] OTHER -> 1

AudioOf(kd, idx) ==
    IF kd = "head" THEN Art("main_audio", idx) ELSE Art("original_audio", idx)

StageInputsExist ==
    /\ (pc \in FilePcs /\ StageRank(pc) \in 1..3) => AudioOf(kind, i) \in DOMAIN files
    /\ pc = "concat_segments" =>
         /\ Art("temp_original", i + 1) \in DOMAIN files
         /\ \A j \in 0..(filler_index - 1) : Filler(i + 1, j) \in DOMAIN files
         /\ files[Art("temp_segments", i + 1)] = 1 + filler_index
    /\ pc = "t_loop_concat" => Art("temp_loop", i + 1) \in DOMAIN files
    /\ pc = "t_loop_cut" => Art("temp_looped", i + 1) \in DOMAIN files
    /\ pc = "concat" =>
         /\ Art("temp_processed", i + 1) \in DOMAIN files
         /\ Art("temp_main_segment", i + 1) \in DOMAIN files
         /\ Art("temp_list", i + 1) \in DOMAIN files
    /\ pc = "t_concat" =>
         /\ Art("temp_original_beginning", i + 1) \in DOMAIN files
         /\ Art("temp_upsell", i + 1) \in DOMAIN files
         /\ Art("temp_concat", i + 1) \in DOMAIN files
    /\ pc \in {"mux", "t_mux"} =>
         /\ Art("temp_combined", i + 1) \in DOMAIN files
         /\ AudioOf(kind, i) \in DOMAIN files
    /\ pc \in {"probe_output", "t_probe_output"} =>
         Art("output", i + 1) \in DOMAIN files

StageStep ==
    kind \in {"head", "tail"} =>
    /\ (pc = "scan" /\ pc' \in FilePcs) => StageRank(pc') = 0 /\ i' = 0
    /\ pc \in FilePcs =>
         \/ /\ pc' \in FilePcs /\ i' = i
            /\ StageRank(pc') \in {StageRank(pc), StageRank(pc) + 1}
         \/ /\ StageRank(pc) = 4
            /\ i' = i + 1 /\ i \in created'
            /\ \/ pc' \in FilePcs /\ StageRank(pc') = 0
               \/ pc' = "exited" /\ status' = 0
         \/ pc' = "exited" /\ status' = 1

\* C12: for each output file of the head-replace and tail-replace scripts the
\* stages come only in the order Started, AudioExtracted, HeadOrFillerBuilt,
\* Concatenated, Muxed, Finalized, none skipped or revisited; a concatenation
\* starts only when every segment it lists is written, a mux only when the
\* combined video and the extracted audio exist; the only other step from any
\* stage ends the run as failed.
C12_StagesInOrder ==
    /\ [](kind \in {"head", "tail"} => StageInputsExist)
    /\ [][StageStep]_vars

C12_Witness ==
    /\ kind = "head" /\ pc = "probe_output" /\ i >= 1
    /\ i - 1 \in created
    /\ Cardinality(FillerSteps(plan)) >= 1
    /\ Art("output", i + 1) \in DOMAIN files

====
